---- MODULE Spec2Model ----
(***************************************************************************)
(* Model of dwave_networkx's Ising graph generator and Ising drawing       *)
(* helpers:                                                                *)
(*   generators/ising.py       ising_graph                                 *)
(*   drawing/draw_utilities.py color_map                                   *)
(*   drawing/ising_layout.py   ising_layout, draw_ising                    *)
(*                                                                         *)
(* Python values are encoded uniformly so that values of different Python  *)
(* types can sit in one set:                                               *)
(*   a hashable object is [ty, id, elts]: an int i is PyInt(i), the i-th   *)
(*   string label is PyStr(i), a 2-tuple (u, v) is PyTuple(u, v);          *)
(*   a dict is the sequence of its <<key, value>> items in insertion       *)
(*   order, keys pairwise distinct;                                        *)
(*   an attribute value is Num(b) for a number, ListVal(l) for a list.     *)
(* Numbers are integers (biases are only added, compared and negated).     *)
(***************************************************************************)
EXTENDS Integers, Sequences, FiniteSets, TLC

VARIABLES h, J, kwargs, create_using, create_using_before, H, ret,
          linear_biases, quadratic_biases, nodelist, edgelist,
          node_colors, edge_colors, dim, pos, bounds, drawn, exc, pc

vars == <<h, J, kwargs, create_using, create_using_before, H, ret,
          linear_biases, quadratic_biases, nodelist, edgelist,
          node_colors, edge_colors, dim, pos, bounds, drawn, exc, pc>>

(***************************************************************************)
(* Bounds of the model                                                     *)
(***************************************************************************)
\* largest number of items of a bias map (h, J) drawn as input
MaxLen == 2

\* integer node identifiers, string node labels, bias values
IntIds == {0, 1}
StrIds == {0}
Biases == {-1, 2}

(***************************************************************************)
(* Python values                                                           *)
(***************************************************************************)
PyInt(i) == [ty |-> "int", id |-> i, elts |-> <<>>]
PyStr(i) == [ty |-> "str", id |-> i, elts |-> <<>>]
PyTuple(u, v) == [ty |-> "tuple", id |-> 0, elts |-> <<u, v>>]

Num(b) == [ty |-> "num", num |-> b, list |-> <<>>]
ListVal(l) == [ty |-> "list", num |-> 0, list |-> l]

Range(s) == {s[i] : i \in DOMAIN s}

EmptyFcn == [x \in {} |-> 0]

Put(f, k, v) == [x \in (DOMAIN f) \cup {k} |-> IF x = k THEN v ELSE f[x]]

\* dict views: keys(), `k in d`, d[k]
Keys(d) == {d[i][1] : i \in DOMAIN d}
KeySeq(d) == [i \in DOMAIN d |-> d[i][1]]
Lookup(d, k) == d[CHOOSE i \in DOMAIN d : d[i][1] = k][2]

\* iterating h: a dict yields its keys, a list yields its elements (as ints)
IterH(hh) ==
  IF hh.isdict THEN KeySeq(hh.data)
  ELSE [i \in DOMAIN hh.data |-> PyInt(hh.data[i])]

(***************************************************************************)
(* The graph container (networkx.Graph): nodes in insertion order, ordered *)
(* adjacency, one attribute table for nodes and one for edges.  An         *)
(* undirected edge is the set of its endpoints.                            *)
(***************************************************************************)
EmptyGraph == [name |-> "", node |-> <<>>, adj |-> EmptyFcn, nattr |-> EmptyFcn, eattr |-> EmptyFcn]

Nodes(G) == Range(G.node)
Edge(u, v) == {u, v}
Edges(G) == UNION {{Edge(u, v) : v \in Range(G.adj[u])} : u \in Nodes(G)}
HasEdge(G, u, v) == u \in Nodes(G) /\ v \in Range(G.adj[u])

add_node(G, n) ==
  IF n \in Nodes(G) THEN G
  ELSE [G EXCEPT !.node = Append(@, n), !.adj = Put(@, n, <<>>)]

RECURSIVE add_nodes_from(_, _)
add_nodes_from(G, ns) ==
  IF ns = <<>> THEN G
  ELSE add_nodes_from(add_node(G, Head(ns)), Tail(ns))

Link(adj, u, v) ==
  IF v \in Range(adj[u]) THEN adj ELSE [adj EXCEPT ![u] = Append(@, v)]

\* add_edge that drops self-loops
add_edge_noloop(G, u, v) ==
  LET G1 == add_node(add_node(G, u), v)
  IN  IF u = v THEN G1 ELSE [G1 EXCEPT !.adj = Link(Link(@, u, v), v, u)]

add_edge(G, u, v) ==
  LET G1 == add_node(add_node(G, u), v)
  IN  [G1 EXCEPT !.adj = Link(Link(@, u, v), v, u)]

RECURSIVE add_edges_from(_, _)
add_edges_from(G, es) ==
  IF es = <<>> THEN G
  ELSE add_edges_from(add_edge(G, Head(es).elts[1], Head(es).elts[2]), Tail(es))

\* values is a dict {(u, v): value}; pairs that are no edge of G are skipped
RECURSIVE set_edge_attributes(_, _, _)
set_edge_attributes(G, values, name) ==
  IF values = <<>> THEN G
  ELSE LET u == Head(values)[1].elts[1]
           v == Head(values)[1].elts[2]
           G1 == IF HasEdge(G, u, v)
                 THEN [G EXCEPT !.eattr = Put(@, <<Edge(u, v), name>>, Num(Head(values)[2]))]
                 ELSE G
       IN  set_edge_attributes(G1, Tail(values), name)

\* values is a dict {node: value}; keys that are no node of G are skipped
RECURSIVE set_node_attributes_dict(_, _, _)
set_node_attributes_dict(G, values, name) ==
  IF values = <<>> THEN G
  ELSE LET n == Head(values)[1]
           G1 == IF n \in Nodes(G)
                 THEN [G EXCEPT !.nattr = Put(@, <<n, name>>, Num(Head(values)[2]))]
                 ELSE G
       IN  set_node_attributes_dict(G1, Tail(values), name)

\* values has no .items(): it is stored whole on every node of G
set_node_attributes_const(G, value, name) ==
  [G EXCEPT !.nattr = [x \in (DOMAIN @) \cup {<<n, name>> : n \in Nodes(G)} |->
                          IF x[2] = name THEN value ELSE @[x]]]

\* set_node_attributes that stores 0 on the nodes the dict does not name
set_node_attributes_zero(G, values, name) ==
  IF values.isdict
  THEN LET G1 == set_node_attributes_dict(G, values.data, name)
       IN  [G1 EXCEPT !.nattr = [x \in (DOMAIN @) \cup {<<n, name>> : n \in Nodes(G)} |->
                                   IF x \in DOMAIN @ THEN @[x] ELSE Num(0)]]
  ELSE set_node_attributes_const(G, ListVal(values.data), name)

set_node_attributes(G, values, name) ==
  IF values.isdict THEN set_node_attributes_dict(G, values.data, name)
  ELSE set_node_attributes_const(G, ListVal(values.data), name)

PyDict(d) == [isdict |-> TRUE, data |-> d]
PyList(l) == [isdict |-> FALSE, data |-> l]

(***************************************************************************)
(* generators/ising.py                                                     *)
(***************************************************************************)
\* nx.empty_graph(0, create_using): a new graph, or the caller's container
\* after clear(); either way no node, edge or attribute is left
empty_graph(cu) == IF cu.given THEN [cu.g EXCEPT !.name = "", !.node = <<>>, !.adj = EmptyFcn, !.nattr = EmptyFcn, !.eattr = EmptyFcn] ELSE EmptyGraph

\* the loop over kwargs.items(): each arg_dict goes to the edges when all its
\* keys are tuples, to the nodes when all its keys are ints, and raises
\* ValueError otherwise, leaving the graph as the earlier maps made it
\* the kwargs loop that skips a map of mixed keys instead of raising
RECURSIVE attach_kwargs_skip(_, _)
attach_kwargs_skip(G, kw) ==
  IF kw = <<>> THEN [graph |-> G, raised |-> FALSE]
  ELSE LET name == Head(kw)[1]
           arg_dict == Head(kw)[2]
       IN  IF \A k \in Keys(arg_dict) : k.ty = "tuple"
           THEN attach_kwargs_skip(set_edge_attributes(G, arg_dict, name), Tail(kw))
           ELSE IF \A k \in Keys(arg_dict) : k.ty = "int"
           THEN attach_kwargs_skip(set_node_attributes_dict(G, arg_dict, name), Tail(kw))
           ELSE attach_kwargs_skip(G, Tail(kw))

RECURSIVE attach_kwargs(_, _)
attach_kwargs(G, kw) ==
  IF kw = <<>> THEN [graph |-> G, raised |-> FALSE]
  ELSE LET name == Head(kw)[1]
           arg_dict == Head(kw)[2]
       IN  IF \A k \in Keys(arg_dict) : k.ty = "tuple"
           THEN attach_kwargs(set_edge_attributes(G, arg_dict, name), Tail(kw))
           ELSE IF \A k \in Keys(arg_dict) : k.ty = "int"
           THEN attach_kwargs(set_node_attributes(G, PyDict(arg_dict), name), Tail(kw))
           ELSE [graph |-> G, raised |-> TRUE]

ising_graph(hh, JJ, cu, kw) ==
  LET H0 == [empty_graph(cu) EXCEPT !.name = "ising_graph"]
      H1 == add_nodes_from(H0, IterH(hh))
      H2 == add_edges_from(H1, KeySeq(JJ))
      H3 == set_edge_attributes(H2, JJ, "bias")
      H4 == set_node_attributes(H3, hh, "bias")
  IN  attach_kwargs(H4, kw)

(***************************************************************************)
(* drawing/draw_utilities.py                                               *)
(***************************************************************************)
\* edge_color that reads only the orientation listed
edge_color_one_way(u, v, qb) ==
  IF PyTuple(u, v) \in Keys(qb) THEN Lookup(qb, PyTuple(u, v)) ELSE 0

edge_color(u, v, qb) ==
  (IF PyTuple(u, v) \in Keys(qb) THEN Lookup(qb, PyTuple(u, v)) ELSE 0)
  + (IF PyTuple(v, u) \in Keys(qb) THEN Lookup(qb, PyTuple(v, u)) ELSE 0)

node_color(v, lb, qb) ==
  (IF v \in Keys(lb) THEN Lookup(lb, v) ELSE 0)
  + (IF PyTuple(v, v) \in Keys(qb) THEN Lookup(qb, PyTuple(v, v)) ELSE 0)

color_map(nl, el, lb, qb) ==
  [node_color |-> [i \in DOMAIN nl |-> node_color(nl[i], lb, qb)],
   edge_color |-> [i \in DOMAIN el |-> edge_color(el[i].elts[1], el[i].elts[2], qb)]]

(***************************************************************************)
(* drawing/ising_layout.py                                                 *)
(***************************************************************************)
\* None, or a value
None == [some |-> FALSE, val |-> 0]
Some(v) == [some |-> TRUE, val |-> v]

\* H.edges(): each edge once, from the endpoint that was added first, in
\* the order of the adjacency
RECURSIVE EdgesFrom(_, _)
EdgesFrom(G, i) ==
  IF i > Len(G.node) THEN <<>>
  ELSE LET n == G.node[i]
           seen == {G.node[j] : j \in 1..(i - 1)}
           IsNew(nbr) == nbr \notin seen
           nbrs == SelectSeq(G.adj[n], IsNew)
       IN  [k \in DOMAIN nbrs |-> PyTuple(n, nbrs[k])] \o EdgesFrom(G, i + 1)

EdgeList(G) == EdgesFrom(G, 1)

\* set(['x','y']).issubset(dat)
HasXY(G, n) == <<n, "x">> \in DOMAIN G.nattr /\ <<n, "y">> \in DOMAIN G.nattr
AllHaveXY(G) == \A n \in Nodes(G) : HasXY(G, n)

\* ising_layout(H, dim=d), H a networkx graph: the x and y of every node
\* when every node has them, whatever d is; otherwise the call of
\* nx.random_layou, a name networkx does not have, which raises
\* AttributeError
ising_layout(G, d) ==
  IF AllHaveXY(G)
  THEN [exc |-> "none",
        pos |-> [n \in Nodes(G) |-> <<G.nattr[<<n, "x">>].num, G.nattr[<<n, "y">>].num>>]]
  ELSE [exc |-> "AttributeError", pos |-> EmptyFcn]

Abs(c) == IF c < 0 THEN -c ELSE c
Max2(a, b) == IF a >= b THEN a ELSE b
MaxOf(S) == CHOOSE m \in S : \A c \in S : m >= c
Default(opt, v) == IF opt.some THEN opt ELSE Some(v)

NotDrawn ==
  [called |-> FALSE, nodelist |-> None, edgelist |-> None,
   node_color |-> None, edge_color |-> None,
   vmin |-> None, vmax |-> None, edge_vmin |-> None, edge_vmax |-> None,
   pos |-> EmptyFcn]

\* draw_ising(H, linear_biases, quadratic_biases, nodelist, edgelist,
\*            vmin, vmax, edge_vmin, edge_vmax): what networkx's draw is
\* handed, or the exception raised before it is called
draw_ising(G, lb, qb, nl, el, vmin, vmax, edge_vmin, edge_vmax) ==
  IF lb # <<>> \/ qb # <<>>
  THEN LET nodes == IF nl.some THEN nl.val ELSE G.node
           edges == IF el.some THEN el.val ELSE EdgeList(G)
           cm == color_map(nodes, edges, lb, qb)
       IN  IF cm.node_color = <<>> \/ cm.edge_color = <<>>
           THEN [exc |-> "ValueError", drawn |-> NotDrawn]
           ELSE LET vmag == Max2(MaxOf({Abs(c) : c \in Range(cm.node_color)}),
                                 MaxOf({Abs(c) : c \in Range(cm.edge_color)}))
                    layout == ising_layout(G, 2)
                IN  IF layout.exc # "none"
                    THEN [exc |-> layout.exc, drawn |-> NotDrawn]
                    ELSE [exc |-> "none",
                          drawn |-> [called |-> TRUE,
                                     nodelist |-> Some(nodes), edgelist |-> Some(edges),
                                     node_color |-> Some(cm.node_color),
                                     edge_color |-> Some(cm.edge_color),
                                     vmin |-> Default(vmin, -1 * vmag),
                                     vmax |-> Default(vmax, vmag),
                                     edge_vmin |-> Default(edge_vmin, -1 * vmag),
                                     edge_vmax |-> Default(edge_vmax, vmag),
                                     pos |-> layout.pos]]
  ELSE LET layout == ising_layout(G, 2)
       IN  IF layout.exc # "none"
           THEN [exc |-> layout.exc, drawn |-> NotDrawn]
           ELSE [exc |-> "none",
                 drawn |-> [called |-> TRUE, nodelist |-> nl, edgelist |-> el,
                            node_color |-> None, edge_color |-> None,
                            vmin |-> vmin, vmax |-> vmax,
                            edge_vmin |-> edge_vmin, edge_vmax |-> edge_vmax,
                            pos |-> layout.pos]]

(***************************************************************************)
(* Inputs                                                                  *)
(***************************************************************************)
NodeIds == {PyInt(i) : i \in IntIds} \cup {PyStr(i) : i \in StrIds}
PairKeys == {PyTuple(u, v) : u \in NodeIds, v \in NodeIds}

SeqsUpTo(S, n) == UNION {[1..m -> S] : m \in 0..n}

\* the dicts of at most n items with keys in K and values in V
DictsOver(K, V, n) ==
  {d \in SeqsUpTo(K \X V, n) : \A i \in DOMAIN d : \A j \in DOMAIN d : d[i][1] = d[j][1] => i = j}

NoGraph == [given |-> FALSE, g |-> EmptyGraph]
Given(G) == [given |-> TRUE, g |-> G]

\* a container the caller filled earlier
OldGraph ==
  set_node_attributes(add_edge(add_node(EmptyGraph, PyInt(7)), PyInt(0), PyInt(7)),
                      PyDict(<<<<PyInt(7), 3>>>>), "bias")

Idle ==
  /\ linear_biases = <<>> /\ quadratic_biases = <<>>
  /\ nodelist = <<>> /\ edgelist = <<>>
  /\ node_colors = <<>> /\ edge_colors = <<>>
  /\ dim = 2 /\ pos = EmptyFcn /\ bounds = <<None, None, None, None>>
  /\ drawn = NotDrawn /\ exc = "none"

(***************************************************************************)
(* Building a graph from bias maps                                         *)
(***************************************************************************)
Init ==
  /\ h \in {PyDict(d) : d \in DictsOver(NodeIds, Biases, MaxLen)}
           \cup {PyList(l) : l \in SeqsUpTo(Biases, MaxLen)}
  /\ J \in DictsOver(PairKeys, Biases, MaxLen)
  /\ kwargs = <<>>
  /\ create_using = NoGraph
  /\ create_using_before = create_using
  /\ H = EmptyGraph
  /\ ret = "none"
  /\ pc = "start"
  /\ Idle

\* H = ising_graph(h, J, create_using, **kwargs)
IsingGraph ==
  /\ pc = "start"
  /\ LET r == ising_graph(h, J, create_using, kwargs)
     IN  /\ ret' = IF r.raised THEN "ValueError" ELSE "returned"
         /\ H' = IF r.raised THEN H ELSE r.graph
         /\ create_using' = IF create_using.given THEN Given(r.graph) ELSE create_using
  /\ pc' = "done"
  /\ UNCHANGED <<h, J, kwargs, create_using_before, linear_biases, quadratic_biases,
                 nodelist, edgelist, node_colors, edge_colors, dim, pos, bounds,
                 drawn, exc>>

Next == IsingGraph

Spec == Init /\ [][Next]_vars

(***************************************************************************)
(* Building a graph with extra attribute maps, possibly into a container   *)
(* of the caller                                                           *)
(***************************************************************************)
AttrNames == {"x", "y"}
AttrKeys == NodeIds \cup {PyTuple(PyInt(0), PyInt(1))}
AttrVals == {5}
\* largest number of items of one extra attribute map
MaxItems == 2

ArgDicts == DictsOver(AttrKeys, AttrVals, MaxItems)

\* f(**kwargs) with each name used at most once, in any order
KwargsInputs ==
  {kw \in SeqsUpTo(AttrNames \X ArgDicts, Cardinality(AttrNames)) :
     \A i \in DOMAIN kw : \A j \in DOMAIN kw : kw[i][1] = kw[j][1] => i = j}

InitAttr ==
  /\ h \in {PyDict(d) : d \in DictsOver(NodeIds, {2}, 1)}
  /\ J \in DictsOver(PairKeys, {-1}, 1)
  /\ kwargs \in KwargsInputs
  /\ create_using \in {NoGraph, Given(OldGraph)}
  /\ create_using_before = create_using
  /\ H = EmptyGraph
  /\ ret = "none"
  /\ pc = "start"
  /\ Idle

NextAttr == IsingGraph

SpecAttr == InitAttr /\ [][NextAttr]_vars

(***************************************************************************)
(* Mapping biases to colors                                                *)
(***************************************************************************)
IntNodes == {PyInt(i) : i \in IntIds}
IntPairs == {PyTuple(u, v) : u \in IntNodes, v \in IntNodes}
\* largest length of a node list or edge list drawn as input
MaxList == 2

InitColor ==
  /\ linear_biases \in DictsOver(IntNodes, Biases, 1)
  /\ quadratic_biases \in DictsOver(IntPairs, Biases, MaxLen)
  /\ nodelist = <<>> /\ edgelist = <<>>
  /\ node_colors = <<>> /\ edge_colors = <<>>
  /\ h = PyDict(<<>>) /\ J = <<>> /\ kwargs = <<>>
  /\ create_using = NoGraph /\ create_using_before = NoGraph
  /\ H = EmptyGraph /\ ret = "none"
  /\ dim = 2 /\ pos = EmptyFcn /\ bounds = <<None, None, None, None>>
  /\ drawn = NotDrawn /\ exc = "none"
  /\ pc = "start"

\* node_colors, edge_colors = color_map(nl, el, linear_biases, quadratic_biases)
ColorMap ==
  /\ pc = "start"
  /\ \E nl \in SeqsUpTo(IntNodes, MaxList), el \in SeqsUpTo(IntPairs, MaxList) :
       LET cm == color_map(nl, el, linear_biases, quadratic_biases)
       IN  /\ nodelist' = nl
           /\ edgelist' = el
           /\ node_colors' = cm.node_color
           /\ edge_colors' = cm.edge_color
  /\ pc' = "color_map"
  /\ UNCHANGED <<h, J, kwargs, create_using, create_using_before, H, ret,
                 linear_biases, quadratic_biases, dim, pos, bounds, drawn, exc>>

NextColor == ColorMap

SpecColor == InitColor /\ [][NextColor]_vars

(***************************************************************************)
(* Laying out and drawing a graph                                          *)
(***************************************************************************)
\* coordinate maps given to the builder as x=..., y=...
XYInputs ==
  { <<>>,
    <<<<"x", <<<<PyInt(0), 5>>>>>>>>,
    <<<<"x", <<<<PyInt(0), 5>>>>>>, <<"y", <<<<PyInt(0), 6>>>>>>>>,
    <<<<"x", <<<<PyInt(0), 5>>, <<PyInt(1), 7>>>>>>,
      <<"y", <<<<PyInt(0), 6>>, <<PyInt(1), 8>>>>>>>> }

\* the graphs drawn: built by ising_graph from small inputs
DrawGraphs ==
  {ising_graph(PyDict(hd), Jd, NoGraph, kw).graph :
     hd \in DictsOver(IntNodes, {2}, 2), Jd \in DictsOver(IntPairs, {-1}, 1), kw \in XYInputs}

Dims == {2, 3}
Passed == Some(9)
NodeListInputs == {None, Some(<<>>), Some(<<PyInt(1), PyInt(0)>>)}
EdgeListInputs == {None, Some(<<>>), Some(<<PyTuple(PyInt(1), PyInt(0))>>)}
\* which of vmin, vmax, edge_vmin, edge_vmax the caller passes
BoundInputs ==
  {<<None, None, None, None>>, <<Passed, None, None, None>>,
   <<None, Passed, None, None>>, <<None, None, Passed, None>>,
   <<None, None, None, Passed>>,
   <<Passed, Passed, Passed, Passed>>}

InitDraw ==
  /\ H \in DrawGraphs
  /\ linear_biases \in DictsOver(IntNodes, Biases, 1)
  /\ quadratic_biases \in DictsOver(IntPairs, Biases, 1)
  /\ nodelist = <<>> /\ edgelist = <<>>
  /\ node_colors = <<>> /\ edge_colors = <<>>
  /\ h = PyDict(<<>>) /\ J = <<>> /\ kwargs = <<>>
  /\ create_using = NoGraph /\ create_using_before = NoGraph
  /\ ret = "returned"
  /\ dim = 2 /\ pos = EmptyFcn /\ bounds = <<None, None, None, None>>
  /\ drawn = NotDrawn /\ exc = "none"
  /\ pc = "start"

\* pos = ising_layout(H, dim=d)
IsingLayout ==
  /\ pc = "start"
  /\ \E d \in Dims :
       LET r == ising_layout(H, d)
       IN  /\ dim' = d
           /\ pos' = r.pos
           /\ exc' = r.exc
  /\ pc' = "ising_layout"
  /\ UNCHANGED <<h, J, kwargs, create_using, create_using_before, H, ret,
                 linear_biases, quadratic_biases, nodelist, edgelist,
                 node_colors, edge_colors, bounds, drawn>>

\* draw_ising(H, linear_biases, quadratic_biases, nodelist=nl, edgelist=el,
\*            vmin=b[1], vmax=b[2], edge_vmin=b[3], edge_vmax=b[4])
DrawIsing ==
  /\ pc = "start"
  /\ \E nl \in NodeListInputs, el \in EdgeListInputs, b \in BoundInputs :
       LET r == draw_ising(H, linear_biases, quadratic_biases, nl, el, b[1], b[2], b[3], b[4])
       IN  /\ nodelist' = nl
           /\ edgelist' = el
           /\ drawn' = r.drawn
           /\ exc' = r.exc
           /\ bounds' = b
           /\ dim' = 2
           /\ pos' = r.drawn.pos
  /\ pc' = "draw_ising"
  /\ UNCHANGED <<h, J, kwargs, create_using, create_using_before, H, ret,
                 linear_biases, quadratic_biases, node_colors, edge_colors>>

NextDraw == IsingLayout \/ DrawIsing

SpecDraw == InitDraw /\ [][NextDraw]_vars

(***************************************************************************)
(* Properties of the graph builder                                         *)
(***************************************************************************)
Built == pc = "done" /\ ret = "returned"
Endpoints(JJ) == UNION {{k.elts[1], k.elts[2]} : k \in Keys(JJ)}
HasNodeAttr(G, n, name) == <<n, name>> \in DOMAIN G.nattr
HasEdgeAttr(G, u, v, name) == <<Edge(u, v), name>> \in DOMAIN G.eattr
IndexOf(d, k) == CHOOSE i \in DOMAIN d : d[i][1] = k

\* C1: the graph built from bias maps h and J has every key of h and both
\* endpoints of every pair of J as nodes, and its edges, read as unordered
\* pairs, are exactly the keys of J (a key (u, u) being a self-loop).
C1_NodesAndEdges ==
  (Built /\ h.isdict) =>
     /\ Keys(h.data) \cup Endpoints(J) \subseteq Nodes(H)
     /\ Edges(H) = {Edge(k.elts[1], k.elts[2]) : k \in Keys(J)}

C1_Witness ==
  /\ Built /\ h.isdict /\ Len(J) = 2 /\ Len(h.data) > 0
  /\ \E k \in Keys(J) : k.elts[1] = k.elts[2]
  /\ \E k \in Keys(J) : k.elts[1] # k.elts[2] /\ k.elts[2] \notin Keys(h.data)

\* C2 as claimed: every key v of h carries bias h[v], every key (u, v) of J
\* carries bias J[(u, v)] on its edge, and a node that is no key of h has no
\* bias attribute.
C2_AsClaimed ==
  (Built /\ h.isdict) =>
     /\ \A v \in Keys(h.data) :
          HasNodeAttr(H, v, "bias") /\ H.nattr[<<v, "bias">>] = Num(Lookup(h.data, v))
     /\ \A k \in Keys(J) :
          /\ HasEdgeAttr(H, k.elts[1], k.elts[2], "bias")
          /\ H.eattr[<<Edge(k.elts[1], k.elts[2]), "bias">>] = Num(Lookup(J, k))
     /\ \A n \in Nodes(H) \ Keys(h.data) : ~HasNodeAttr(H, n, "bias")

\* the item of J that decides the bias of the edge of key k: k itself, or the
\* reversed pair when J holds it too and lists it later
Deciding(JJ, k) ==
  LET rev == PyTuple(k.elts[2], k.elts[1])
  IN  IF rev \in Keys(JJ) /\ IndexOf(JJ, rev) > IndexOf(JJ, k) THEN rev ELSE k

\* C2 as amended: every key v of h carries bias h[v]; a node that is no key
\* of h has no bias attribute; the edge of a key (u, v) of J carries
\* J[(u, v)], unless J also holds the reversed pair (v, u) and lists it
\* later, in which case the one undirected edge carries J[(v, u)].
C2_Biases ==
  (Built /\ h.isdict) =>
     /\ \A v \in Keys(h.data) :
          HasNodeAttr(H, v, "bias") /\ H.nattr[<<v, "bias">>] = Num(Lookup(h.data, v))
     /\ \A k \in Keys(J) :
          /\ HasEdgeAttr(H, k.elts[1], k.elts[2], "bias")
          /\ H.eattr[<<Edge(k.elts[1], k.elts[2]), "bias">>] = Num(Lookup(J, Deciding(J, k)))
     /\ \A n \in Nodes(H) \ Keys(h.data) : ~HasNodeAttr(H, n, "bias")

C2_Witness ==
  /\ Built /\ h.isdict /\ Len(h.data) > 0
  /\ Nodes(H) \ Keys(h.data) # {}
  /\ \E k \in Keys(J) :
       /\ k.elts[1] # k.elts[2]
       /\ PyTuple(k.elts[2], k.elts[1]) \in Keys(J)
       /\ Lookup(J, k) # Lookup(J, PyTuple(k.elts[2], k.elts[1]))

\* the mapping {i: b_i} of a dense sequence [b0, b1, ...]
AsMapping(l) == [i \in DOMAIN l |-> <<PyInt(i - 1), l[i]>>]

\* C3: a linear bias list [b0, ..., b(n-1)] gives the nodes 0..n-1, node i
\* carrying bias b_i, the same graph as the mapping {i: b_i} gives.
C3_ListIsIndexed ==
  (Built /\ ~h.isdict) =>
     /\ \A i \in DOMAIN h.data :
          /\ PyInt(i - 1) \in Nodes(H)
          /\ HasNodeAttr(H, PyInt(i - 1), "bias")
          /\ H.nattr[<<PyInt(i - 1), "bias">>] = Num(h.data[i])
     /\ H = ising_graph(PyDict(AsMapping(h.data)), J, create_using_before, kwargs).graph

NodeKeyed(arg_dict) == \A k \in Keys(arg_dict) : k.ty # "tuple"
EdgeKeyed(arg_dict) == \A k \in Keys(arg_dict) : k.ty = "tuple"
Mixed(arg_dict) == ~NodeKeyed(arg_dict) /\ ~EdgeKeyed(arg_dict)

\* C4: a map whose keys are all pairs becomes an edge attribute; a map whose
\* keys are all node identifiers, integers or labels, is accepted and becomes
\* a node attribute; after the build every node that is a key of such a map is
\* a node of the graph and carries the mapped value under the map's name.
C4_AttributeMaps ==
  (pc = "done" /\ \A i \in DOMAIN kwargs : ~Mixed(kwargs[i][2])) =>
     /\ ret = "returned"
     /\ \A i \in DOMAIN kwargs :
          LET name == kwargs[i][1]
              arg_dict == kwargs[i][2]
          IN  IF EdgeKeyed(arg_dict)
              THEN \A k \in Keys(arg_dict) :
                     HasEdge(H, k.elts[1], k.elts[2]) =>
                        /\ HasEdgeAttr(H, k.elts[1], k.elts[2], name)
                        /\ H.eattr[<<Edge(k.elts[1], k.elts[2]), name>>] = Num(Lookup(arg_dict, k))
              ELSE \A k \in Keys(arg_dict) :
                     /\ k \in Nodes(H)
                     /\ HasNodeAttr(H, k, name)
                     /\ H.nattr[<<k, name>>] = Num(Lookup(arg_dict, k))

\* C5: when some extra attribute map mixes node keys and pair keys, the
\* build raises ValueError and returns no graph, whatever h, J and the other
\* maps are.
C5_MixedRaises ==
  (pc = "done" /\ \E i \in DOMAIN kwargs : Mixed(kwargs[i][2])) =>
     ret = "ValueError" /\ H = EmptyGraph

C5_Witness ==
  /\ pc = "done" /\ ret = "ValueError"
  /\ Len(kwargs) = 2 /\ Mixed(kwargs[2][2])
  /\ kwargs[1][2] # <<>> /\ ~Mixed(kwargs[1][2])
  /\ \A k \in Keys(kwargs[1][2]) : k.ty \in {"int", "tuple"}

\* C10: a build that raises leaves the caller's container exactly as it was
\* before the call.
C10_FailureIsAtomic ==
  (pc = "done" /\ ret = "ValueError" /\ create_using_before.given) =>
     create_using = create_using_before

(***************************************************************************)
(* Properties of the color mapper                                          *)
(***************************************************************************)
\* d.get(k, 0)
Get(d, k) == IF \E i \in DOMAIN d : d[i][1] = k THEN Lookup(d, k) ELSE 0

\* C6: color_map returns one color per listed node and per listed edge, in
\* the lists' order: for node v, h.get(v, 0) + J.get((v, v), 0); for edge
\* (u, v), J.get((u, v), 0) + J.get((v, u), 0); keys missing from h and J
\* count as 0.
C6_Colors ==
  (pc = "color_map") =>
     /\ Len(node_colors) = Len(nodelist)
     /\ Len(edge_colors) = Len(edgelist)
     /\ \A i \in DOMAIN nodelist :
          node_colors[i] = Get(linear_biases, nodelist[i])
                           + Get(quadratic_biases, PyTuple(nodelist[i], nodelist[i]))
     /\ \A i \in DOMAIN edgelist :
          edge_colors[i] = Get(quadratic_biases, edgelist[i])
                           + Get(quadratic_biases, PyTuple(edgelist[i].elts[2], edgelist[i].elts[1]))

C6_Witness ==
  /\ pc = "color_map"
  /\ Len(nodelist) = 2 /\ Len(edgelist) = 2 /\ edgelist[1] # edgelist[2]
  /\ nodelist[1] \notin Keys(linear_biases)
  /\ nodelist[2] \in Keys(linear_biases)
  /\ PyTuple(nodelist[2], nodelist[2]) \in Keys(quadratic_biases)
  /\ edgelist[1] \notin Keys(quadratic_biases)
  /\ PyTuple(edgelist[1].elts[2], edgelist[1].elts[1]) \in Keys(quadratic_biases)
  /\ edgelist[1].elts[1] # edgelist[1].elts[2]

(***************************************************************************)
(* Properties of layout and drawing                                        *)
(***************************************************************************)
\* C7: when some node lacks an x or y attribute, ising_layout does not
\* raise: it returns a position for every node of the graph, taken from the
\* fallback layout.
C7_FallbackLayout ==
  (pc = "ising_layout" /\ ~AllHaveXY(H)) =>
     exc = "none" /\ DOMAIN pos = Nodes(H)

\* C8: when every node has x and y, ising_layout returns for each node a
\* tuple of exactly dim entries: x, y, then zeros.
C8_Dimensions ==
  (pc = "ising_layout" /\ AllHaveXY(H)) =>
     /\ exc = "none"
     /\ DOMAIN pos = Nodes(H)
     /\ \A n \in Nodes(H) :
          /\ Len(pos[n]) = dim
          /\ pos[n][1] = H.nattr[<<n, "x">>].num
          /\ pos[n][2] = H.nattr[<<n, "y">>].num
          /\ \A i \in 3..dim : pos[n][i] = 0

\* C9: called with a non-empty bias map, draw_ising hands draw the range
\* [-vmag, vmag], vmag the largest magnitude among the node and edge colors,
\* as vmin, vmax and as edge_vmin, edge_vmax, each bound the caller passed
\* being kept; for any node list and edge list, empty ones included.  Stated
\* for graphs whose nodes all have x and y, where position resolution
\* returns.
C9_SymmetricRange ==
  (pc = "draw_ising" /\ (linear_biases # <<>> \/ quadratic_biases # <<>>) /\ AllHaveXY(H)) =>
     /\ exc = "none"
     /\ drawn.called
     /\ LET cm == color_map(drawn.nodelist.val, drawn.edgelist.val, linear_biases, quadratic_biases)
            mags == {Abs(c) : c \in Range(cm.node_color) \cup Range(cm.edge_color)}
            vmag == IF mags = {} THEN 0 ELSE MaxOf(mags)
        IN  /\ drawn.vmin = Default(bounds[1], -vmag)
            /\ drawn.vmax = Default(bounds[2], vmag)
            /\ drawn.edge_vmin = Default(bounds[3], -vmag)
            /\ drawn.edge_vmax = Default(bounds[4], vmag)

====
